---- MODULE Spec2Model ----
(***************************************************************************)
(* AsyncPredictor of demo/predictor.py: a dispatcher that hands images to  *)
(* a pool of worker processes through a bounded task queue, receives the   *)
(* predictions through a bounded result queue and returns them in the      *)
(* order of submission; and the parallel branch of                         *)
(* VisualizationDemo.run_on_video, which drives it.                        *)
(***************************************************************************)
EXTENDS Integers, Sequences, FiniteSets, TLC

\* ------------------------------------------------------------ bounds
\* num_gpus ranges over 0..MaxGpus
MaxGpus == 2
\* calls of put (directly or through __call__) made by the API caller
MaxPuts == 5
\* calls of get made by the API caller
MaxGets == 5
\* calls of shutdown (explicit, or by the atexit hook)
MaxShutdowns == 2
\* calls of put made by the caller that shuts the dispatcher down
MaxPutsShutdown == 6
\* calls of put made by the caller that never calls get
MaxPutsOnly == 15
\* calls of put made by the caller that submits a batch and then retrieves it
MaxPutsBatch == 8
\* frames of the longest video given to run_on_video
MaxFrames == 11

\* ------------------------------------------------- program constants
\* mp.Queue(maxsize=num_workers * 3)
QueueFactor == 3
\* default_buffer_size: len(self.procs) * 5
BufferFactor == 5

\* the payloads a caller may submit
Images == {<<"a">>, <<"b">>}
OneImage == {<<"a">>}

\* the videos given to run_on_video: n frames, each unlike the others
Frame(i) == <<"frame", i>>
Videos == {[i \in 1..n |-> Frame(i)] : n \in 0..MaxFrames}

\* AsyncPredictor._StopToken
StopToken == <<"StopToken">>

\* what DefaultPredictor computes for an image: opaque, a function of the image
\* (images and predictions are tuples, so that any two can be compared)
predictor(data) == <<"pred">> \o data

VARIABLES
    num_workers,   \* max(num_gpus, 1) = len(self.procs)
    task_queue,    \* self.task_queue: tasks <<idx, data>> and stop tokens
    result_queue,  \* self.result_queue: <<idx, result>>
    procs,         \* self.procs, the workers, which differ in their device only:
                   \* idle = how many are at task_queue.get, held = the results of
                   \* those at result_queue.put, exited = how many left run(),
                   \* crashed = the ids of the tasks whose worker died with them
    put_idx,       \* self.put_idx
    get_idx,       \* self.get_idx
    result_rank,   \* self.result_rank
    result_data,   \* self.result_data
    pc,            \* where the calling thread is
    ra,            \* where the calling thread continues when put / get returns
    image,         \* the argument of the put in progress
    stop_i,        \* iterations of shutdown's loop completed
    frame_gen,     \* run_on_video: the frames not yet read
    cnt,           \* run_on_video: enumerate's counter of the current frame
    frame_data,    \* run_on_video: the deque of frames awaiting their prediction
    frame,         \* run_on_video: the frame popped from frame_data
    yielded,       \* run_on_video: what was yielded, <<frame, predictions>>
    video_in,      \* history: the frames of the video given to run_on_video
    submitted,     \* history: the images given to put, in order
    delivered,     \* history: what get returned, <<idx, result>>, in order
    taken,         \* history: taken[i] = times task i was dequeued by a worker
    sent,          \* history: sent[i] = times a result for i was put on result_queue
    shutdowns,     \* history: calls of shutdown begun
    call_arg,      \* history: the image of the last __call__
    call_pre,      \* history: put_idx - get_idx when the last __call__ began
    call_res       \* history: what the last __call__ returned

dispatcher == <<num_workers, task_queue, result_queue, procs, put_idx, get_idx,
                result_rank, result_data>>
caller == <<pc, ra, image, stop_i>>
video == <<frame_gen, cnt, frame_data, frame, yielded, video_in>>
history == <<submitted, delivered, taken, sent, shutdowns, call_arg, call_pre, call_res>>
vars == <<dispatcher, caller, video, history>>

\* no image, no result
None == <<>>
\* no return address
Nowhere == "none"

Max(a, b) == IF a >= b THEN a ELSE b

\* ------------------------------------------------------------ helpers

\* mp.Queue(maxsize=num_workers * 3)
maxsize_x4 == num_workers * 4
maxsize_x2 == num_workers * 2
maxsize == num_workers * QueueFactor

\* default_buffer_size
default_buffer_size_x3 == num_workers * 3
default_buffer_size == num_workers * BufferFactor

\* len(predictor)
len_off_by_one == put_idx - get_idx - 1
__len__ == put_idx - get_idx

\* bisect.bisect(a, x) = bisect_right: the number of entries <= x of the sorted list a
bisect_front(a, x) == 0
bisect(a, x) == Cardinality({i \in 1..Len(a) : a[i] <= x})

\* list.insert(i, x) with a 0-based index i in 0..len
insert(s, i, x) == SubSeq(s, 1, i) \o <<x>> \o SubSeq(s, i + 1, Len(s))

\* del s[0]
del_nothing(s) == s
del0(s) == Tail(s)

\* get's test of a received index: idx == self.get_idx
wanted_or_later(idx) == idx >= get_idx
wanted_next(idx) == idx = get_idx + 1
wanted(idx) == idx = get_idx

\* get's fast path test, after get_idx was incremented to want
fast_path(want) == Len(result_rank) > 0 /\ result_rank[1] = want

\* ------------------------------------------------------------ construction

\* AsyncPredictor.__init__
InitDispatcher ==
    /\ \E num_gpus \in 0..MaxGpus : num_workers = Max(num_gpus, 1)
    /\ task_queue = <<>>
    /\ result_queue = <<>>
    /\ procs = [idle |-> num_workers, held |-> {}, exited |-> 0, crashed |-> {}]
    /\ put_idx = 0
    /\ get_idx = 0
    /\ result_rank = <<>>
    /\ result_data = <<>>
    /\ image = None
    /\ ra = Nowhere
    /\ stop_i = 0
    /\ submitted = <<>>
    /\ delivered = <<>>
    /\ taken = <<>>
    /\ sent = <<>>
    /\ shutdowns = 0
    /\ call_arg = None
    /\ call_pre = 0
    /\ call_res = None

InitNoVideo ==
    /\ frame_gen = <<>>
    /\ cnt = -1
    /\ frame_data = <<>>
    /\ frame = None
    /\ yielded = <<>>
    /\ video_in = <<>>

\* a caller that uses the dispatcher's methods directly
Init ==
    /\ InitDispatcher
    /\ InitNoVideo
    /\ pc = "idle"

\* ------------------------------------------------------------ workers

\* _PredictWorker.run: idx, data = task; result = predictor(data); the pair
\* (idx, result) it then puts on the result queue
result_of_echo(task) == <<task[1], task[2]>>
result_of(task) == <<task[1], predictor(task[2])>>

\* _PredictWorker.run, one iteration up to the blocking result_queue.put:
\* task = self.task_queue.get(), which blocks while the queue is empty; break on a
\* stop token, else compute the result
worker_get_peek ==
    /\ procs.idle > 0
    /\ task_queue # <<>>
    /\ Head(task_queue) # StopToken
    /\ procs' = [procs EXCEPT !.idle = @ - 1, !.held = @ \cup {result_of(Head(task_queue))}]
    /\ taken' = [taken EXCEPT ![Head(task_queue)[1]] = @ + 1]
    /\ UNCHANGED <<num_workers, task_queue, result_queue, put_idx, get_idx, result_rank,
                   result_data, caller, video, submitted, delivered, sent, shutdowns,
                   call_arg, call_pre, call_res>>

worker_get ==
    /\ procs.idle > 0
    /\ task_queue # <<>>
    /\ LET task == Head(task_queue) IN
        /\ task_queue' = Tail(task_queue)
        /\ IF task = StopToken
             THEN /\ procs' = [procs EXCEPT !.idle = @ - 1, !.exited = @ + 1]
                  /\ UNCHANGED taken
             ELSE /\ procs' = [procs EXCEPT !.idle = @ - 1, !.held = @ \cup {result_of(task)}]
                  /\ taken' = [taken EXCEPT ![task[1]] = @ + 1]
    /\ UNCHANGED <<num_workers, result_queue, put_idx, get_idx, result_rank, result_data,
                   caller, video, submitted, delivered, sent, shutdowns,
                   call_arg, call_pre, call_res>>

\* _PredictWorker.run: self.result_queue.put((idx, result)) by the worker that holds
\* h, which blocks while the queue is full; then the worker is back at task_queue.get
worker_put_drop(h) ==
    /\ h \in procs.held
    /\ procs' = [procs EXCEPT !.idle = @ + 1, !.held = @ \ {h}]
    /\ UNCHANGED <<num_workers, task_queue, result_queue, put_idx, get_idx, result_rank,
                   result_data, caller, video, history>>

worker_put(h) ==
    /\ h \in procs.held
    /\ Len(result_queue) < maxsize
    /\ result_queue' = Append(result_queue, h)
    /\ sent' = [sent EXCEPT ![h[1]] = @ + 1]
    /\ procs' = [procs EXCEPT !.idle = @ + 1, !.held = @ \ {h}]
    /\ UNCHANGED <<num_workers, task_queue, put_idx, get_idx, result_rank, result_data,
                   caller, video, submitted, delivered, taken, shutdowns,
                   call_arg, call_pre, call_res>>

\* _PredictWorker.run: the process of the worker that took the task of h dies
\* after task_queue.get returned and before result_queue.put: predictor(data)
\* raises or the process is killed; nothing restarts it
worker_crash(h) ==
    /\ h \in procs.held
    /\ procs' = [procs EXCEPT !.held = @ \ {h}, !.crashed = @ \cup {h[1]}]
    /\ UNCHANGED <<num_workers, task_queue, result_queue, put_idx, get_idx, result_rank,
                   result_data, caller, video, history>>

\* every result a worker can hold
Results == {<<i, predictor(d)>> :
               i \in 1..(MaxPuts + MaxPutsShutdown + MaxFrames),
               d \in Images \cup {Frame(j) : j \in 1..MaxFrames}}

Worker == worker_get \/ \E h \in procs.held : worker_put(h)

\* ------------------------------------------------------------ put

\* put, up to the blocking task_queue.put: self.put_idx += 1
PutBegin(img, r) ==
    /\ put_idx' = put_idx + 1
    /\ image' = img
    /\ pc' = "put"
    /\ ra' = r
    /\ submitted' = Append(submitted, img)
    /\ taken' = Append(taken, 0)
    /\ sent' = Append(sent, 0)

\* put called by the API caller
put(img) ==
    /\ pc = "idle"
    /\ put_idx < MaxPuts
    /\ PutBegin(img, "idle")
    /\ UNCHANGED <<num_workers, task_queue, result_queue, procs, get_idx, result_rank,
                   result_data, stop_i, video, delivered, shutdowns,
                   call_arg, call_pre, call_res>>

\* put: self.task_queue.put((self.put_idx, image)), which blocks while the queue is full
task_queue_put ==
    /\ pc = "put"
    /\ Len(task_queue) < maxsize
    /\ task_queue' = Append(task_queue, <<put_idx, image>>)
    /\ pc' = ra
    /\ image' = None
    /\ ra' = Nowhere
    /\ UNCHANGED <<num_workers, result_queue, procs, put_idx, get_idx, result_rank,
                   result_data, stop_i, video, history>>

\* ------------------------------------------------------------ get

\* get returns res (the result of index idx) to the caller, who continues at r
Return(idx, res, r) ==
    /\ delivered' = Append(delivered, <<idx, res>>)
    /\ IF r = "call_ret"
         THEN /\ call_res' = res
              /\ pc' = "idle"
              /\ UNCHANGED yielded
         ELSE IF r \in {"for", "drain"}
         THEN /\ yielded' = Append(yielded, <<frame', res>>)
              /\ pc' = r
              /\ UNCHANGED call_res
         ELSE /\ pc' = r
              /\ UNCHANGED <<call_res, yielded>>
    /\ ra' = Nowhere

\* get, up to the blocking result_queue.get: the increment and the fast path
GetBegin_twice(r) ==
    /\ get_idx' = get_idx + 2
    /\ IF fast_path(get_idx + 2)
         THEN /\ result_data' = del0(result_data)
              /\ result_rank' = del0(result_rank)
              /\ Return(result_rank[1], result_data[1], r)
         ELSE /\ pc' = "get"
              /\ ra' = r
              /\ UNCHANGED <<result_rank, result_data, delivered, call_res, yielded>>

GetBegin(r) ==
    /\ get_idx' = get_idx + 1
    /\ IF fast_path(get_idx + 1)
         THEN /\ result_data' = del0(result_data)
              /\ result_rank' = del0(result_rank)
              /\ Return(result_rank[1], result_data[1], r)
         ELSE /\ pc' = "get"
              /\ ra' = r
              /\ UNCHANGED <<result_rank, result_data, delivered, call_res, yielded>>

\* get called by the API caller
get ==
    /\ pc = "idle"
    /\ get_idx < MaxGets
    /\ GetBegin("idle")
    /\ UNCHANGED <<num_workers, task_queue, result_queue, procs, put_idx, image, stop_i,
                   frame_gen, cnt, frame_data, frame, video_in, submitted, taken, sent, shutdowns,
                   call_arg, call_pre>>

\* get: one iteration of the loop around self.result_queue.get(), which blocks while
\* the queue is empty
result_queue_get ==
    /\ pc = "get"
    /\ result_queue # <<>>
    /\ UNCHANGED <<num_workers, task_queue, procs, put_idx, get_idx, image, stop_i,
                   frame_gen, cnt, frame_data, frame, video_in, submitted, taken, sent,
                   shutdowns, call_arg, call_pre>>
    /\ LET idx == Head(result_queue)[1]
           res == Head(result_queue)[2]
       IN
        /\ result_queue' = Tail(result_queue)
        /\ IF wanted(idx)
             THEN /\ Return(idx, res, ra)
                  /\ UNCHANGED <<result_rank, result_data>>
             ELSE /\ LET at == bisect(result_rank, idx) IN
                      /\ result_rank' = insert(result_rank, at, idx)
                      /\ result_data' = insert(result_data, at, res)
                  /\ UNCHANGED <<pc, ra, delivered, call_res, yielded>>

\* ------------------------------------------------------------ __call__

\* __call__: self.put(image), up to the blocking task_queue.put
call(img) ==
    /\ pc = "idle"
    /\ put_idx < MaxPuts
    /\ get_idx < MaxGets
    /\ PutBegin(img, "call_get")
    /\ call_arg' = img
    /\ call_pre' = put_idx - get_idx
    /\ call_res' = None
    /\ UNCHANGED <<num_workers, task_queue, result_queue, procs, get_idx, result_rank,
                   result_data, stop_i, video, delivered, shutdowns>>

\* __call__: return self.get(), up to the blocking result_queue.get
call_get ==
    /\ pc = "call_get"
    /\ GetBegin("call_ret")
    /\ UNCHANGED <<num_workers, task_queue, result_queue, procs, put_idx, image, stop_i,
                   frame_gen, cnt, frame_data, frame, video_in, submitted, taken, sent, shutdowns,
                   call_arg, call_pre>>

\* ------------------------------------------------------------ shutdown

\* shutdown is called: explicitly, or by the atexit hook
shutdown ==
    /\ pc = "idle"
    /\ shutdowns < MaxShutdowns
    /\ shutdowns' = shutdowns + 1
    /\ pc' = "shutdown"
    /\ stop_i' = 0
    /\ UNCHANGED <<dispatcher, ra, image, video, submitted, delivered, taken, sent,
                   call_arg, call_pre, call_res>>

\* shutdown: one iteration of the loop, self.task_queue.put(_StopToken()), which
\* blocks while the queue is full
shutdown_put_front ==
    /\ pc = "shutdown"
    /\ Len(task_queue) < maxsize
    /\ task_queue' = <<StopToken>> \o task_queue
    /\ stop_i' = stop_i + 1
    /\ pc' = IF stop_i + 1 = num_workers THEN "idle" ELSE "shutdown"
    /\ UNCHANGED <<num_workers, result_queue, procs, put_idx, get_idx, result_rank,
                   result_data, ra, image, video, history>>

shutdown_put ==
    /\ pc = "shutdown"
    /\ Len(task_queue) < maxsize
    /\ task_queue' = Append(task_queue, StopToken)
    /\ stop_i' = stop_i + 1
    /\ pc' = IF stop_i + 1 = num_workers THEN "idle" ELSE "shutdown"
    /\ UNCHANGED <<num_workers, result_queue, procs, put_idx, get_idx, result_rank,
                   result_data, ra, image, video, history>>

\* a caller that submits, retrieves what it submitted, and shuts down; it stops
\* submitting before it shuts down
put_before_shutdown(img) ==
    /\ pc = "idle"
    /\ shutdowns = 0
    /\ put_idx < MaxPutsShutdown
    /\ PutBegin(img, "idle")
    /\ UNCHANGED <<num_workers, task_queue, result_queue, procs, get_idx, result_rank,
                   result_data, stop_i, video, delivered, shutdowns,
                   call_arg, call_pre, call_res>>

get_submitted ==
    /\ pc = "idle"
    /\ get_idx < put_idx
    /\ GetBegin("idle")
    /\ UNCHANGED <<num_workers, task_queue, result_queue, procs, put_idx, image, stop_i,
                   frame_gen, cnt, frame_data, frame, video_in, submitted, taken, sent, shutdowns,
                   call_arg, call_pre>>

\* a caller that only submits
put_only(img) ==
    /\ pc = "idle"
    /\ put_idx < MaxPutsOnly
    /\ PutBegin(img, "idle")
    /\ UNCHANGED <<num_workers, task_queue, result_queue, procs, get_idx, result_rank,
                   result_data, stop_i, video, delivered, shutdowns,
                   call_arg, call_pre, call_res>>

\* a caller that submits a batch and then retrieves it: no put after its first get
put_batch(img) ==
    /\ pc = "idle"
    /\ get_idx = 0
    /\ put_idx < MaxPutsBatch
    /\ PutBegin(img, "idle")
    /\ UNCHANGED <<num_workers, task_queue, result_queue, procs, get_idx, result_rank,
                   result_data, stop_i, video, delivered, shutdowns,
                   call_arg, call_pre, call_res>>

\* ------------------------------------------------------------ run_on_video

\* run_on_video(video) with self.parallel, at the head of its for loop
InitVideo ==
    /\ InitDispatcher
    /\ video_in \in Videos
    /\ frame_gen = video_in
    /\ cnt = -1
    /\ frame_data = <<>>
    /\ frame = None
    /\ yielded = <<>>
    /\ pc = "for"

\* for cnt, frame in enumerate(frame_gen): frame_data.append(frame);
\* self.predictor.put(frame), up to the blocking task_queue.put
video_for ==
    /\ pc = "for"
    /\ frame_gen # <<>>
    /\ cnt' = cnt + 1
    /\ frame_gen' = Tail(frame_gen)
    /\ frame_data' = Append(frame_data, Head(frame_gen))
    /\ PutBegin(Head(frame_gen), "for_if")
    /\ UNCHANGED <<num_workers, task_queue, result_queue, procs, get_idx, result_rank,
                   result_data, stop_i, frame, yielded, video_in, delivered, shutdowns,
                   call_arg, call_pre, call_res>>

\* if cnt >= buffer_size: frame = frame_data.popleft(); self.predictor.get(), up to
\* the blocking result_queue.get; the yield follows get's return
video_if ==
    /\ pc = "for_if"
    /\ IF cnt >= default_buffer_size
         THEN /\ frame' = Head(frame_data)
              /\ frame_data' = Tail(frame_data)
              /\ GetBegin("for")
         ELSE /\ pc' = "for"
              /\ UNCHANGED <<get_idx, result_rank, result_data, ra, frame, frame_data,
                             delivered, call_res, yielded>>
    /\ UNCHANGED <<num_workers, task_queue, result_queue, procs, put_idx, image, stop_i,
                   frame_gen, cnt, video_in, submitted, taken, sent, shutdowns,
                   call_arg, call_pre>>

\* the for loop ends: the video has no more frames
video_for_end ==
    /\ pc = "for"
    /\ frame_gen = <<>>
    /\ pc' = "drain"
    /\ UNCHANGED <<dispatcher, ra, image, stop_i, video, history>>

\* while len(frame_data): frame = frame_data.popleft(); self.predictor.get()
video_drain ==
    /\ pc = "drain"
    /\ frame_data # <<>>
    /\ frame' = Head(frame_data)
    /\ frame_data' = Tail(frame_data)
    /\ GetBegin("drain")
    /\ UNCHANGED <<num_workers, task_queue, result_queue, procs, put_idx, image, stop_i,
                   frame_gen, cnt, video_in, submitted, taken, sent, shutdowns,
                   call_arg, call_pre>>

\* the while loop ends: the generator is exhausted
video_end ==
    /\ pc = "drain"
    /\ frame_data = <<>>
    /\ pc' = "done"
    /\ UNCHANGED <<dispatcher, ra, image, stop_i, video, history>>

\* ------------------------------------------------------------ specifications

\* the dispatcher's methods called in any order, no shutdown
Caller ==
    \/ \E img \in Images : put(img)
    \/ task_queue_put
    \/ get
    \/ result_queue_get
    \/ \E img \in Images : call(img)
    \/ call_get

Next == Caller \/ Worker

Spec == Init /\ [][Next]_vars

\* submissions and retrievals, then shutdown, called once or more
CallerShutdown ==
    \/ \E img \in OneImage : put_before_shutdown(img)
    \/ task_queue_put
    \/ get_submitted
    \/ result_queue_get
    \/ shutdown
    \/ shutdown_put

NextShutdown == CallerShutdown \/ Worker

SpecShutdown == Init /\ [][NextShutdown]_vars

\* run_on_video in parallel mode
CallerVideo ==
    \/ video_for
    \/ task_queue_put
    \/ video_if
    \/ result_queue_get
    \/ video_for_end
    \/ video_drain
    \/ video_end

NextVideo == CallerVideo \/ Worker

SpecVideo == InitVideo /\ [][NextVideo]_vars

\* submissions and retrievals of what was submitted, no shutdown, with the scheduling
\* the processes get: a worker at task_queue.get takes a task when there is one, a
\* worker at result_queue.put sends when there is room, and a caller in get receives
\* when there is a result
CallerFair ==
    \/ \E img \in OneImage : put_before_shutdown(img)
    \/ task_queue_put
    \/ get_submitted
    \/ result_queue_get

NextFair == CallerFair \/ Worker

Fairness ==
    /\ WF_vars(worker_get)
    /\ \A h \in Results : WF_vars(worker_put(h))
    /\ WF_vars(result_queue_get)

FairSpec == Init /\ [][NextFair]_vars /\ Fairness

\* the results a worker can hold for the caller that shuts down
ResultsShutdown == {<<i, predictor(d)>> : i \in 1..MaxPutsShutdown, d \in OneImage}

\* the caller that shuts down, with the scheduling the processes get: a worker at
\* task_queue.get takes what is there, a worker at result_queue.put sends when there
\* is room, a blocked put of the caller goes through when there is room, a caller in
\* get receives when there is a result; and a caller who keeps retrieving: it does
\* not stay idle while results are outstanding
FairnessShutdown ==
    /\ WF_vars(worker_get)
    /\ \A h \in ResultsShutdown : WF_vars(worker_put(h))
    /\ WF_vars(task_queue_put)
    /\ WF_vars(shutdown_put)
    /\ WF_vars(result_queue_get)
    /\ WF_vars(get_submitted)

FairSpecShutdown == Init /\ [][NextShutdown]_vars /\ FairnessShutdown

\* a caller that only calls put
CallerPutOnly ==
    \/ \E img \in OneImage : put_only(img)
    \/ task_queue_put

NextPutOnly == CallerPutOnly \/ Worker

\* the results a worker can hold for the caller that only calls put
ResultsPutOnly == {<<i, predictor(d)>> : i \in 1..MaxPutsOnly, d \in OneImage}

\* fair workers, and a caller that goes on calling put
FairnessPutOnly ==
    /\ WF_vars(worker_get)
    /\ \A h \in ResultsPutOnly : WF_vars(worker_put(h))
    /\ WF_vars(CallerPutOnly)

FairSpecPutOnly == Init /\ [][NextPutOnly]_vars /\ FairnessPutOnly

\* a caller that submits a batch and then retrieves it
CallerBatch ==
    \/ \E img \in OneImage : put_batch(img)
    \/ task_queue_put
    \/ get_submitted
    \/ result_queue_get

NextBatch == CallerBatch \/ Worker

SpecBatch == Init /\ [][NextBatch]_vars

\* submissions and retrievals of what was submitted, with workers that may die
\* while they hold a task
NextCrash == CallerFair \/ Worker \/ \E h \in procs.held : worker_crash(h)

SpecCrash == Init /\ [][NextCrash]_vars

\* ------------------------------------------------------------ what the claims speak of

\* how many times get has returned the result of id i
Returned(i) == Cardinality({k \in 1..Len(delivered) : delivered[k][1] = i})

\* how many entries of the sequence q are about id i
InQueue(q, i) == Cardinality({k \in 1..Len(q) : q[k] # StopToken /\ q[k][1] = i})

\* in how many places the task or result of id i is
Places(i) ==
    (IF pc = "put" /\ put_idx = i THEN 1 ELSE 0)
    + InQueue(task_queue, i)
    + Cardinality({h \in procs.held : h[1] = i})
    + InQueue(result_queue, i)
    + Cardinality({k \in 1..Len(result_rank) : result_rank[k] = i})
    + Returned(i)

\* tasks submitted (put has assigned their id) that get has not yet returned
Outstanding == Len(submitted) - Len(delivered)

\* tasks submitted that no worker has dequeued yet
Undequeued == Cardinality({i \in 1..put_idx : taken[i] = 0})

\* a put call is blocked on the full task queue
PutBlocked == pc = "put" /\ Len(task_queue) = 3 * num_workers

\* the stop tokens put on the task queue so far: those in it and those consumed
StopsEnqueued ==
    Cardinality({k \in 1..Len(task_queue) : task_queue[k] = StopToken}) + procs.exited

\* the cursors as the specification names them
next_submit_id == Len(submitted) + 1
next_expected_id == Len(delivered) + 1

\* ------------------------------------------------------------ claims

\* C1. Order preservation: the k-th return of get is the result computed for the
\* k-th submitted input (sequence id k), whatever the order the workers finish in.
C1_OrderPreservation ==
    \A k \in 1..Len(delivered) :
        /\ k <= Len(submitted)
        /\ delivered[k] = <<k, predictor(submitted[k])>>

\* C1 witness: three results were returned although a later result overtook an
\* earlier one (it waits in the reorder buffer), for inputs that differ
C1_Witness ==
    /\ Len(delivered) >= 3
    /\ result_rank # <<>>
    /\ submitted[2] # submitted[3]
    /\ submitted[1] # submitted[2]

\* C2. No loss, no duplication: every id put assigned is dequeued by at most one
\* worker, has at most one result sent, and is returned by get at most once, each
\* only after the step before it; the task or result of every submitted id is in
\* exactly one place; get returns only submitted ids; and when as many gets have
\* returned as puts were made, every id was returned exactly once.
C2_NoLossNoDuplication ==
    /\ \A i \in 1..put_idx :
        /\ taken[i] <= 1
        /\ sent[i] <= taken[i]
        /\ Returned(i) <= sent[i]
        /\ Places(i) = 1
    /\ \A k \in 1..Len(delivered) : delivered[k][1] \in 1..put_idx
    /\ (pc = "idle" /\ Len(delivered) = put_idx) =>
           \A i \in 1..put_idx : taken[i] = 1 /\ sent[i] = 1 /\ Returned(i) = 1

\* C2 witness: four submissions, all returned, two workers
C2_Witness ==
    /\ pc = "idle"
    /\ put_idx >= 4
    /\ Len(delivered) = put_idx
    /\ num_workers >= 2

\* C3. Retrieve liveness: with fair workers, no crash and no shutdown, a get that
\* waits for an id that was submitted eventually returns it.
C3_RetrieveLiveness ==
    \A i \in 1..(MaxPutsShutdown + 1) :
        (pc = "get" /\ get_idx = i /\ i <= put_idx) ~> (Len(delivered) >= i)

\* C3 witness: a get waits in its receive loop for a submitted id, with a later
\* result already in the reorder buffer
C3_Witness ==
    /\ pc = "get"
    /\ get_idx <= put_idx
    /\ result_rank # <<>>
    /\ shutdowns = 0

\* C4 as stated: never more than 3 x pool_size tasks submitted and not yet returned,
\* unless a put call is in progress (blocked, or about to enqueue).
C4_BackpressureAsStated ==
    Outstanding > 3 * num_workers => pc = "put"

\* C4 amended. The bound is on the task queue, not on what is outstanding: the
\* tasks submitted and not yet dequeued by a worker never exceed 3 x pool_size,
\* but for the one of a put that is blocked on the full queue.
C4_TaskQueueBound ==
    /\ Len(task_queue) <= 3 * num_workers
    /\ \/ Undequeued <= 3 * num_workers
       \/ PutBlocked /\ Undequeued = 3 * num_workers + 1

\* C4 witness: a put is blocked on the full task queue
C4_Witness ==
    /\ PutBlocked
    /\ Undequeued = 3 * num_workers + 1
    /\ Outstanding > 3 * num_workers + 1

\* C5 as stated: in every state, predictor(x) returns the prediction for x.
C5_CallAsStated ==
    call_res # None => call_res = predictor(call_arg)

\* C5 amended. predictor(x) returns the prediction for x when every earlier put was
\* matched by a get (put_idx = get_idx when it is called).
C5_CallWhenNothingOutstanding ==
    (call_res # None /\ call_pre = 0) => call_res = predictor(call_arg)

\* C5 witness: a __call__ made with nothing outstanding returned, after two earlier
\* submissions were returned
C5_Witness ==
    /\ call_res # None
    /\ call_pre = 0
    /\ pc = "idle"
    /\ Len(delivered) >= 3

\* C6. Shutdown called twice does not hang: a caller inside shutdown is never stuck
\* for good, that is, it can put its stop token or some worker can still move.
C6_ShutdownNeverStuck ==
    pc = "shutdown" => ENABLED (shutdown_put \/ Worker)

\* C7. Repeated shutdown is a no-op: the stop tokens ever enqueued are pool_size at
\* most, whatever the number of shutdown calls.
C7_RepeatedShutdownNoOp ==
    StopsEnqueued <= num_workers

\* C8. The pipeline driver's output: the j-th yield pairs frame j with the
\* prediction for frame j; nothing is yielded twice or out of order; when
\* run_on_video finishes every frame was yielded; and a first yield comes only
\* after 5 x pool_size + 1 frames were submitted or the video is exhausted.
C8_VideoOutput ==
    /\ Len(yielded) <= Len(video_in)
    /\ \A j \in 1..Len(yielded) : yielded[j] = <<video_in[j], predictor(video_in[j])>>
    /\ pc = "done" => Len(yielded) = Len(video_in)
    /\ Len(yielded) >= 1 =>
           \/ put_idx >= 5 * num_workers + 1
           \/ frame_gen = <<>> /\ put_idx = Len(video_in)

\* C8 witness: run_on_video finished a video longer than buffer_size + 1, so that
\* it yielded from inside the for loop and from the drain loop
C8_Witness ==
    /\ pc = "done"
    /\ Len(video_in) >= 5 * num_workers + 2
    /\ Len(yielded) = Len(video_in)

\* C9 as stated: the reorder buffer never holds more than pool_size entries.
C9_BufferAtMostPoolSize ==
    Len(result_rank) <= num_workers

\* C9 amended. The reorder buffer never holds more entries than there are tasks
\* submitted and not yet returned (put_idx - get_idx), which can exceed pool_size.
C9_BufferAtMostOutstanding ==
    /\ Len(result_rank) = Len(result_data)
    /\ Len(result_rank) <= Max(0, put_idx - get_idx)

\* C9 witness: the buffer holds more than pool_size entries, with two workers
C9_Witness ==
    /\ num_workers = 2
    /\ Len(result_rank) > num_workers

\* C10 as stated: between operations, len(predictor) is
\* next_submit_id - next_expected_id - 1.
C10_InFlightAsStated ==
    pc = "idle" => __len__ = next_submit_id - next_expected_id - 1

\* C10 amended. Between operations, len(predictor) is
\* next_submit_id - next_expected_id: the tasks submitted and not yet returned.
C10_InFlight ==
    pc = "idle" => __len__ = next_submit_id - next_expected_id

\* C10 witness: between operations, with tasks in flight and some returned
C10_Witness ==
    /\ pc = "idle"
    /\ __len__ >= 2
    /\ get_idx >= 2

\* ------------------------------------------------------------ C11

\* the id get returned last, 0 before any return
LastDelivered == IF delivered = <<>> THEN 0 ELSE delivered[Len(delivered)][1]

\* C11. In every reachable state, also inside a get that waits, no two entries of
\* the buffer carry the same id, and every entry's id is greater than the id
\* returned last.
C11_BufferInvariant ==
    /\ \A j, k \in 1..Len(result_rank) : j # k => result_rank[j] # result_rank[k]
    /\ \A k \in 1..Len(result_rank) : result_rank[k] > LastDelivered

\* C11 witness: a get waits with two results buffered, after an earlier return
C11_Witness ==
    /\ pc = "get"
    /\ Len(result_rank) >= 2
    /\ LastDelivered >= 1

\* ------------------------------------------------------------ C12

\* C12 as stated: for any sequence of put and get calls, get_idx <= put_idx.
C12_CursorAsStated == get_idx <= put_idx

\* C12 amended. For any sequence of put and get calls get_idx <= put_idx + 1, and
\* get_idx = put_idx + 1 only inside a get called with nothing submitted and not
\* returned, which then waits for an id that no put has issued.
C12_CursorAtMostOneAhead ==
    /\ get_idx <= put_idx + 1
    /\ get_idx = put_idx + 1 => pc = "get"

\* C12 witness: a get called with nothing outstanding, after puts and gets, waits
C12_Witness ==
    /\ put_idx >= 2
    /\ get_idx = put_idx + 1
    /\ pc = "get"

\* ------------------------------------------------------------ C14

\* the ids of the entries of a queue of pairs <<idx, x>>
Ids(q) == [k \in 1..Len(q) |-> q[k][1]]

\* a sequence of numbers is strictly ascending
Ascending(s) == \A j, k \in 1..Len(s) : j < k => s[j] < s[k]

\* C14. With one worker the results are on the result queue in submission order,
\* each later than everything get received before, and the buffer is empty in
\* every reachable state.
C14_SingleWorker ==
    num_workers = 1 =>
        /\ result_rank = <<>>
        /\ result_data = <<>>
        /\ Ascending(Ids(result_queue))
        /\ \A k \in 1..Len(result_queue) : result_queue[k][1] > LastDelivered

\* C14 witness: one worker, results queued in order after two were returned
C14_Witness ==
    /\ num_workers = 1
    /\ Len(result_queue) >= 2
    /\ Len(delivered) >= 2

\* ------------------------------------------------------------ C19

\* get takes its fast path in this step: the id it now awaits is in the buffer
FastPathStep ==
    /\ get_idx' = get_idx + 1
    /\ \E k \in 1..Len(result_rank) : result_rank[k] = get_idx + 1

\* C19. The buffer is strictly ascending in its ids, with result_rank and
\* result_data aligned; a get whose awaited id is buffered finds it at position 0,
\* returns its payload, removes that entry alone and receives nothing from the
\* result queue.
C19_FastPath ==
    /\ [](/\ Ascending(result_rank)
          /\ Len(result_data) = Len(result_rank)
          /\ \A k \in 1..Len(result_rank) :
                result_data[k] = predictor(submitted[result_rank[k]]))
    /\ [][FastPathStep =>
            /\ result_rank[1] = get_idx + 1
            /\ delivered' = Append(delivered, <<get_idx + 1, result_data[1]>>)
            /\ result_rank' = Tail(result_rank)
            /\ result_data' = Tail(result_data)
            /\ result_queue' = result_queue
            /\ pc' # "get"]_vars

\* C19 witness: between calls, the id the next get awaits heads a buffer of two
C19_Witness ==
    /\ pc = "idle"
    /\ Len(result_rank) >= 2
    /\ result_rank[1] = get_idx + 1
    /\ get_idx >= 1

\* ------------------------------------------------------------ C13

\* C13. When a worker died after it dequeued task i and before it sent the result,
\* no result for i is ever on the result queue, no worker takes task i again, and
\* no get returns i or any later id: the get that awaits i stays in its loop.
C13_LostTask ==
    \A i \in procs.crashed :
        /\ sent[i] = 0
        /\ taken[i] = 1
        /\ InQueue(task_queue, i) = 0
        /\ InQueue(result_queue, i) = 0
        /\ \A h \in procs.held : h[1] # i
        /\ \A k \in 1..Len(result_rank) : result_rank[k] # i
        /\ Len(delivered) < i
        /\ get_idx >= i => pc = "get" /\ get_idx = i

\* C13 witness: the worker of task 2 died, the get that awaits id 2 waits, and
\* results of later ids are in the buffer
C13_Witness ==
    /\ 2 \in procs.crashed
    /\ pc = "get"
    /\ get_idx = 2
    /\ Len(result_rank) >= 2

\* ------------------------------------------------------------ C15

\* C15. Every task submitted before shutdown is taken by a worker before any worker
\* takes a stop token, the tokens being queued behind the tasks; and a caller that
\* keeps calling get after shutdown receives the results of all submitted ids, in
\* order.
C15_InFlightSurvives ==
    /\ [](/\ \A j, k \in 1..Len(task_queue) :
                j < k /\ task_queue[j] = StopToken => task_queue[k] = StopToken
          /\ procs.exited > 0 => \A i \in 1..put_idx : taken[i] = 1
          /\ \A k \in 1..Len(delivered) : delivered[k] = <<k, predictor(submitted[k])>>)
    /\ (shutdowns = 1 /\ pc # "shutdown") ~> (Len(delivered) = put_idx \/ shutdowns > 1)

\* C15 witness: shutdown has returned and a worker has stopped, while the caller is
\* yet to retrieve four submitted results
C15_Witness ==
    /\ shutdowns = 1
    /\ pc = "idle"
    /\ procs.exited >= 1
    /\ put_idx - Len(delivered) >= 4

\* ------------------------------------------------------------ C16

\* stop tokens that the calls of shutdown have put on the task queue
TokensPut ==
    IF pc = "shutdown" THEN (shutdowns - 1) * num_workers + stop_i
                       ELSE shutdowns * num_workers

\* C16. After a single shutdown has returned, with a caller that keeps retrieving,
\* every worker eventually stops. A worker stops only by taking a stop token, takes
\* one token, and after stopping takes no task and sends no result.
C16_WorkerTermination ==
    /\ [](/\ procs.idle + Cardinality(procs.held) + procs.exited = num_workers
          /\ StopsEnqueued = TokensPut)
    /\ [][/\ procs'.exited >= procs.exited
          /\ procs'.exited # procs.exited =>
                /\ Head(task_queue) = StopToken
                /\ task_queue' = Tail(task_queue)
                /\ procs' = [procs EXCEPT !.idle = @ - 1, !.exited = @ + 1]
                /\ UNCHANGED <<taken, sent, result_queue>>
          /\ procs.exited = num_workers => UNCHANGED <<taken, sent>>]_vars
    /\ (shutdowns = 1 /\ pc # "shutdown") ~> (procs.exited = num_workers \/ shutdowns > 1)

\* C16 witness: after one shutdown both workers have stopped
C16_Witness ==
    /\ shutdowns = 1
    /\ num_workers = 2
    /\ procs.exited = 2
    /\ put_idx >= 3

\* ------------------------------------------------------------ C17

\* calls of put that have put their task on the task queue
Enqueued == IF pc = "put" THEN put_idx - 1 ELSE put_idx

\* how far run_on_video and the workers have got: every step of either adds to it.
\* The terms: frames read and the place in the loops; tasks numbered; tasks
\* enqueued; tasks taken by a worker; results sent; results received by get; calls
\* of get begun; calls of get returned
Progress ==
    2 * cnt
    + (IF pc = "done" THEN 3 ELSE IF pc = "drain" \/ ra = "drain" THEN 2
       ELSE IF pc = "for" THEN 1 ELSE 0)
    + put_idx
    + Enqueued
    + (Enqueued - Len(task_queue))
    + (Enqueued - Len(task_queue) - Cardinality(procs.held))
    + (Enqueued - Len(task_queue) - Cardinality(procs.held) - Len(result_queue))
    + get_idx
    + Len(delivered)

\* C17. run_on_video in parallel mode finishes, for every pool size and video: the
\* driver never has more than 5 x pool_size + 1 tasks submitted and not retrieved,
\* which the two queues and the workers take up, so no put blocks for ever: until
\* run_on_video has finished, having yielded every frame, the driver or a worker
\* can take a step, and every step is progress, of which there is a bounded amount.
C17_DriverFinishes ==
    /\ [](/\ Outstanding <= 5 * num_workers + 1
          /\ pc # "done" => ENABLED NextVideo
          /\ pc = "done" => Len(yielded) = Len(video_in)
          /\ Progress <= 9 * Len(video_in) + 1)
    /\ [][Progress' > Progress]_vars

\* C17 witness: the driver is in a put with 5 x pool_size + 1 tasks outstanding,
\* the task queue full
C17_Witness ==
    /\ PutBlocked
    /\ Outstanding = 5 * num_workers + 1

\* ------------------------------------------------------------ C18

\* C18 as stated: the buffer never holds more than 3 x pool_size entries.
C18_BufferAtMostCapacity ==
    Len(result_rank) <= 3 * num_workers

\* C18 amended. Every buffered id is one that put has issued and get has not yet
\* reached, and no id is buffered twice; so the buffer holds at most
\* put_idx - get_idx entries, a number that 3 x pool_size does not bound.
C18_BufferedIdsOutstanding ==
    /\ \A k \in 1..Len(result_rank) : get_idx < result_rank[k] /\ result_rank[k] <= put_idx
    /\ Ascending(result_rank)

\* C18 witness: two workers, and a get that awaits id 1 has buffered ids 2..8
C18_Witness ==
    /\ num_workers = 2
    /\ pc = "get"
    /\ get_idx = 1
    /\ Len(result_rank) = 7

\* ------------------------------------------------------------ C20

\* calls of put that have returned
CompletedPuts == IF pc = "put" THEN put_idx - 1 ELSE put_idx

\* both queues are full and every worker holds a result it cannot send
AllFull ==
    /\ Len(task_queue) = 3 * num_workers
    /\ Cardinality(procs.held) = num_workers
    /\ procs.idle = 0
    /\ Len(result_queue) = 3 * num_workers

\* the caller is blocked in put number 7 x pool_size + 1 (if it makes that many)
BlockedInNextPut ==
    \/ 7 * num_workers >= MaxPutsOnly
    \/ pc = "put" /\ put_idx = 7 * num_workers + 1 /\ AllFull

\* C20. For a caller that only calls put, with fair workers: no more than
\* 7 x pool_size puts return; when 7 x pool_size have returned the task queue holds
\* 3 x pool_size tasks, each worker holds one result and the result queue holds
\* 3 x pool_size, and with the next put begun nothing can move; and a caller
\* that goes on calling put ends up blocked for ever in put number
\* 7 x pool_size + 1.
C20_PutOnlyDeadlock ==
    /\ [](/\ CompletedPuts <= 7 * num_workers
          /\ CompletedPuts = 7 * num_workers => AllFull
          /\ CompletedPuts = 7 * num_workers /\ pc = "put" => ~ ENABLED NextPutOnly)
    /\ <>[]BlockedInNextPut

\* C20 witness: two workers, 14 puts have returned and the 15th is blocked
C20_Witness ==
    /\ num_workers = 2
    /\ pc = "put"
    /\ put_idx = 15
    /\ AllFull

====
